---- MODULE Spec2Model ----
(***************************************************************************)
(* Model of the e-commerce backend: the role gates (securityMiddleware,    *)
(* adminMiddleware), product validation (validateProduct), cart pricing    *)
(* (calculateBalance, getCartWithDetails) and generateId of                *)
(* App/utilities/utilities.js, the /articles and /documents routes, the    *)
(* JWT middleware, registration and login, and the chat room.              *)
(*                                                                         *)
(* JavaScript strings are sequences of one-character strings, so that      *)
(* String.prototype.includes (a substring test), trim and parseFloat are   *)
(* computed the way the runtime computes them.  JavaScript values are      *)
(* records of one shape, tagged by their typeof-like tag t.                *)
(*                                                                         *)
(* The specifications share the variables, one per part of the program     *)
(* (SpecGate, SpecValidate, SpecCart, SpecId, SpecArticles, SpecHttp,      *)
(* SpecAuth, SpecDocs, SpecChat, SpecStore, SpecCreate).  Each starts from *)
(* every input drawn for it and leaves the other parts idle.               *)
(***************************************************************************)
EXTENDS Integers, Sequences, FiniteSets, TLC

VARIABLES
    \* ---- one middleware invocation (req, res, next) ----
    user,        \* req.user: [present, roles]
    resMode,     \* how the response object behaves: "ok" | "statusThrows" | "jsonThrows"
    gate,        \* which middleware ran: "none" | "security" | "admin"
    nextCalls,   \* number of calls of next()
    statusArgs,  \* arguments of the calls of res.status, in order
    jsonArgs,    \* arguments of the calls of res.json, in order
    thrown,      \* what the invocation raised: "none" | "TypeError" | "ResponseError"
    \* ---- one validateProduct call ----
    candidate,   \* the argument of validateProduct: [present, name, price]
    errors,      \* the returned list of messages
    validated,   \* TRUE once validateProduct has returned
    \* ---- the flat-file stores and one pricing call ----
    cartFile,      \* data/cart.json: [st, data]
    productsFile,  \* data/products.json: [st, data]
    op,            \* the pricing call made: "none" | "getCartWithDetails" | "calculateBalance"
    summary,       \* what getCartWithDetails returned: [items, balance, itemCount]
    balance,       \* what calculateBalance returned
    cartThrown,    \* what the pricing call raised: "none" | "TypeError"
    history,       \* the pricing calls made so far: what each read and returned
    \* ---- one generateId call ----
    existingItems, \* the argument of generateId: [isArray, items]
    newId,         \* <<the returned id>>, <<>> before the call
    \* ---- the record a handler builds from an accepted payload ----
    record,        \* <<[present, name, price]>> once built, <<>> before
    recordErrors,  \* what validateProduct returns for the record
    \* ---- requests on the /articles mutation routes (req.user is user) ----
    artReq,        \* the last request: [method, id, body]
    artRes,        \* the status of its response, 0 before any request
    served,        \* number of requests served
    artData,       \* <<the product>> a GET /articles/:id answered with, else <<>>
    issued,        \* the ids the answered POST /articles gave their products, in order
    \* ---- one HTTP request through the application's middleware chain ----
    httpReq,       \* [path, authorization]: the Authorization header is a JS value
    stage,         \* "received" | "authenticated" (next() called by the JWT middleware) | "answered"
    responses,     \* the statuses of the responses sent, in order
    handlerRuns,   \* how many times a route handler has run
    \* ---- the users collection, registrations and one login ----
    users,         \* the stored user documents, in insertion order
    regs,          \* the POST /register requests, one per slot
    login,         \* the POST /login request: [pc, email, password, status, token]
    \* ---- the documents store and the requests on /documents ----
    documentsFile, \* data/documents.json: [st, data]
    uploads,       \* for each accepted upload, in order: [id, owner] (who sent it)
    docReq,        \* the last request: [method, claims, file]
    docRes,        \* the status of its response, 0 before any request
    docList,       \* <<the documents array>> a GET /documents answered with, else <<>>
    docServed,     \* number of /documents requests served
    \* ---- the chat room ----
    previousMessages, \* the shared history, oldest first
    received,         \* number of 'chat message' events handled
    chatHistory,      \* <<the array>> of the last 'chat history' reply, else <<>>
    \* ---- create requests in flight together ----
    creates        \* per slot: [pc, kind, claims, payload, status, id]

vars == <<user, resMode, gate, nextCalls, statusArgs, jsonArgs, thrown,
          candidate, errors, validated,
          cartFile, productsFile, op, summary, balance, cartThrown, history,
          existingItems, newId, record, recordErrors,
          artReq, artRes, served, artData, issued,
          httpReq, stage, responses, handlerRuns,
          users, regs, login,
          documentsFile, uploads, docReq, docRes, docList, docServed,
          previousMessages, received, chatHistory, creates>>

gateVars == <<user, resMode, gate, nextCalls, statusArgs, jsonArgs, thrown>>
validateVars == <<candidate, errors, validated, record, recordErrors>>
cartVars == <<cartFile, productsFile, op, summary, balance, cartThrown, history>>
idVars == <<existingItems, newId>>
artVars == <<artReq, artRes, served, artData, issued>>
httpVars == <<httpReq, stage, responses, handlerRuns>>
authVars == <<users, regs, login>>
docVars == <<documentsFile, uploads, docReq, docRes, docList, docServed>>
chatVars == <<previousMessages, received, chatHistory>>

\* ------------------------------------------------------------------ bounds

\* longest roles array drawn for req.user.roles
MaxRoles == 2

\* most 'chat message' events handled
MaxMessages == 52

\* most create requests in flight together
MaxCreates == 3
\* longest cart drawn for data/cart.json
MaxCart == 2
\* longest catalog drawn for data/products.json
MaxProducts == 2
\* pricing calls made one after the other against the same files
MaxCalls == 2
\* length of the arrays given to generateId
MaxItems == 3
\* requests served one after the other on /articles
MaxRequests == 3

\* ------------------------------------------------------- JavaScript values

JSBase == [t |-> "undefined", k |-> "", n |-> 0, e |-> 0, s |-> <<>>, a |-> <<>>]
Undef == JSBase
Null == [JSBase EXCEPT !.t = "null"]
Bool(b) == [JSBase EXCEPT !.t = "boolean", !.n = IF b THEN 1 ELSE 0]
\* the finite number m * 10^x
Num(m, x) == [JSBase EXCEPT !.t = "number", !.k = "finite", !.n = m, !.e = x]
NaN == [JSBase EXCEPT !.t = "number", !.k = "NaN"]
Infinity == [JSBase EXCEPT !.t = "number", !.k = "Infinity"]
NegInfinity == [JSBase EXCEPT !.t = "number", !.k = "-Infinity"]
Str(chars) == [JSBase EXCEPT !.t = "string", !.s = chars]
\* an array of strings
Arr(strs) == [JSBase EXCEPT !.t = "array", !.a = strs]
\* a plain object with no includes method
Obj == [JSBase EXCEPT !.t = "object"]

\* ToBoolean: undefined, null, false, 0, NaN and "" are falsy
Truthy(v) ==
    CASE v.t \in {"undefined", "null"} -> FALSE
      [] v.t = "boolean" -> v.n = 1
      [] v.t = "number" -> IF v.k = "finite" THEN v.n # 0 ELSE v.k # "NaN"
      [] v.t = "string" -> v.s # <<>>
      [] OTHER -> TRUE

\* String.prototype.includes: needle occurs as a contiguous run of s
StringIncludes(s, needle) ==
    \E i \in 0..(Len(s) - Len(needle)) : SubSeq(s, i + 1, i + Len(needle)) = needle

\* Array.prototype.includes on an array of strings: some element equals x
ArrayIncludes(a, x) == \E i \in 1..Len(a) : a[i] = x

\* whether v.includes is a function
HasIncludes(v) == v.t \in {"string", "array"}

\* v.includes(x) for a v that has the method
Includes(v, x) == IF v.t = "string" THEN StringIncludes(v.s, x) ELSE ArrayIncludes(v.a, x)

\* all sequences over S of length at most n
SeqUpTo(S, n) == UNION {[1..m -> S] : m \in 0..n}

\* ---------------------------------------------------------- role gates

USER == <<"u", "s", "e", "r">>
ADMIN == <<"a", "d", "m", "i", "n">>

\* the body sent on reject
ForbiddenBody == [success |-> FALSE, error |-> "Forbidden"]

\* role strings drawn for req.user.roles: the two required roles, case and
\* prefix variants of them, a string that contains "user", an unrelated role
\* and the empty string
RoleStrings ==
    { USER, ADMIN,
      <<"A", "d", "m", "i", "n">>, <<"A", "D", "M", "I", "N">>,
      <<"a", "d", "m", "i">>, <<"s", "u", "p", "e", "r", "u", "s", "e", "r">>,
      <<"g", "u", "e", "s", "t">>, <<>> }

\* values drawn for req.user.roles
RolesValues ==
    {Undef, Null}
    \cup {Arr(a) : a \in SeqUpTo(RoleStrings, MaxRoles)}
    \cup {Str(s) : s \in RoleStrings}
    \cup {Num(42, 0), Num(0, 0), NaN, Bool(TRUE), Bool(FALSE), Obj}

NoUser == [present |-> FALSE, roles |-> Undef]

\* values drawn for req.user: null/undefined, or an object with a roles field
GateUsers == {NoUser} \cup {[present |-> TRUE, roles |-> r] : r \in RolesValues}

ResModes == {"ok", "statusThrows", "jsonThrows"}

\* req.user && req.user.roles: the operands evaluated before .includes is called
RolesReached(u) == u.present /\ Truthy(u.roles)

\* calling req.user.roles.includes raises a TypeError when roles has no such method
IncludesThrows(u) == RolesReached(u) /\ ~HasIncludes(u.roles)

\* variant of the member condition that forgets the "admin" alternative
SecurityAllowsUserOnly(u) == RolesReached(u) /\ Includes(u.roles, USER)
\* the condition of securityMiddleware, for roles on which includes can be called
SecurityAllows(u) ==
    RolesReached(u) /\ (Includes(u.roles, USER) \/ Includes(u.roles, ADMIN))

\* variant of the administrator condition copied from the member gate
AdminAllowsAnyMember(u) ==
    RolesReached(u) /\ (Includes(u.roles, USER) \/ Includes(u.roles, ADMIN))
\* the condition of adminMiddleware, for roles on which includes can be called
AdminAllows(u) == RolesReached(u) /\ Includes(u.roles, ADMIN)

\* return next()
CallNext ==
    /\ nextCalls' = nextCalls + 1
    /\ UNCHANGED <<statusArgs, jsonArgs, thrown>>

\* res.status(403).json({ success: false, error: "Forbidden" }): json is called
\* on what status returned, so only when status did not raise
SendForbidden ==
    /\ statusArgs' = Append(statusArgs, 403)
    /\ jsonArgs' = IF resMode = "statusThrows" THEN jsonArgs
                   ELSE Append(jsonArgs, ForbiddenBody)
    /\ thrown' = IF resMode = "ok" THEN "none" ELSE "ResponseError"
    /\ UNCHANGED nextCalls

\* one invocation of a gate whose condition is allows
Middleware(name, allows) ==
    /\ gate = "none"
    /\ gate' = name
    /\ IF IncludesThrows(user)
         THEN thrown' = "TypeError" /\ UNCHANGED <<nextCalls, statusArgs, jsonArgs>>
         ELSE IF allows THEN CallNext ELSE SendForbidden
    /\ UNCHANGED <<user, resMode>>

securityMiddleware ==
    /\ Middleware("security", SecurityAllows(user))
    /\ UNCHANGED <<validateVars, cartVars, idVars, artVars, httpVars, authVars, docVars, chatVars, creates>>

adminMiddleware ==
    /\ Middleware("admin", AdminAllows(user))
    /\ UNCHANGED <<validateVars, cartVars, idVars, artVars, httpVars, authVars, docVars, chatVars, creates>>

\* no middleware has run
GateIdle ==
    /\ gate = "none"
    /\ nextCalls = 0
    /\ statusArgs = <<>>
    /\ jsonArgs = <<>>
    /\ thrown = "none"

\* ------------------------------------------------------ strings and numbers

\* white space as trim and parseFloat strip it
WhiteSpace == {" ", "\t", "\n"}

Digits == {"0", "1", "2", "3", "4", "5", "6", "7", "8", "9"}

DigitVal ==
    "0" :> 0 @@ "1" :> 1 @@ "2" :> 2 @@ "3" :> 3 @@ "4" :> 4 @@
    "5" :> 5 @@ "6" :> 6 @@ "7" :> 7 @@ "8" :> 8 @@ "9" :> 9

INFINITY == <<"I", "n", "f", "i", "n", "i", "t", "y">>

RECURSIVE TrimStart(_)
\* s without its leading white space
TrimStart(s) == IF s # <<>> /\ Head(s) \in WhiteSpace THEN TrimStart(Tail(s)) ELSE s

RECURSIVE TrimEnd(_)
\* s without its trailing white space
TrimEnd(s) ==
    IF s # <<>> /\ s[Len(s)] \in WhiteSpace THEN TrimEnd(SubSeq(s, 1, Len(s) - 1)) ELSE s

\* String.prototype.trim
Trim(s) == TrimEnd(TrimStart(s))

RECURSIVE DigitRun(_, _)
\* the number of consecutive digits of s from index i on
DigitRun(s, i) == IF i <= Len(s) /\ s[i] \in Digits THEN 1 + DigitRun(s, i + 1) ELSE 0

RECURSIVE DigitsValue(_, _, _)
\* the value of the n digits of s that start at index i
DigitsValue(s, i, n) ==
    IF n = 0 THEN 0 ELSE DigitsValue(s, i, n - 1) * 10 + DigitVal[s[i + n - 1]]

RECURSIVE NumDigits(_)
\* the number of decimal digits of m >= 0
NumDigits(m) == IF m < 10 THEN 1 ELSE 1 + NumDigits(m \div 10)

\* whether s holds the characters of w from index i on
StartsWithAt(s, i, w) == i + Len(w) - 1 <= Len(s) /\ SubSeq(s, i, i + Len(w) - 1) = w

\* The longest prefix of r (white space already stripped) that is a
\* StrDecimalLiteral: sign, then Infinity, or digits [. digits] [exponent],
\* or . digits [exponent].  len is 0 when there is none.  The scan runs left
\* to right; b is the index after the sign, ni and nf count the digits before
\* and after the dot, x is the index after the mantissa, eb the index of the
\* first exponent digit and ne the number of exponent digits.
NoLiteral(neg) == [len |-> 0, inf |-> FALSE, neg |-> neg, mant |-> 0, exp |-> 0]

Scanned(r, b, neg, ni, nf, len, expo) ==
    [len |-> len, inf |-> FALSE, neg |-> neg,
     mant |-> DigitsValue(r, b, ni) * (10 ^ nf)
              + (IF nf = 0 THEN 0 ELSE DigitsValue(r, b + ni + 1, nf)),
     exp |-> expo - nf]

\* an exponent without digits is no part of the literal
ScanExponentDigits(r, b, neg, ni, nf, x, eneg, eb, ne) ==
    IF ne = 0 THEN Scanned(r, b, neg, ni, nf, x - 1, 0)
    ELSE Scanned(r, b, neg, ni, nf, eb + ne - 1,
                 IF eneg THEN 0 - DigitsValue(r, eb, ne) ELSE DigitsValue(r, eb, ne))

ScanExponentSign(r, b, neg, ni, nf, x, esigned) ==
    ScanExponentDigits(r, b, neg, ni, nf, x, esigned /\ r[x + 1] = "-",
                       IF esigned THEN x + 2 ELSE x + 1,
                       DigitRun(r, IF esigned THEN x + 2 ELSE x + 1))

ScanExponent(r, b, neg, ni, nf, x) ==
    IF x <= Len(r) /\ r[x] \in {"e", "E"}
      THEN ScanExponentSign(r, b, neg, ni, nf, x, x + 1 <= Len(r) /\ r[x + 1] \in {"+", "-"})
      ELSE Scanned(r, b, neg, ni, nf, x - 1, 0)

\* "5." keeps its dot, "." alone is no number
ScanMantissa(r, b, neg, ni, dot, nf) ==
    IF ni + nf = 0 THEN NoLiteral(neg)
    ELSE ScanExponent(r, b, neg, ni, nf, b + ni + (IF dot THEN 1 + nf ELSE 0))

ScanFraction(r, b, neg, ni, dot) ==
    ScanMantissa(r, b, neg, ni, dot, IF dot THEN DigitRun(r, b + ni + 1) ELSE 0)

ScanInteger(r, b, neg, ni) ==
    ScanFraction(r, b, neg, ni, b + ni <= Len(r) /\ r[b + ni] = ".")

ScanUnsigned(r, b, neg) ==
    IF StartsWithAt(r, b, INFINITY)
      THEN [len |-> b - 1 + Len(INFINITY), inf |-> TRUE, neg |-> neg, mant |-> 0, exp |-> 0]
      ELSE ScanInteger(r, b, neg, DigitRun(r, b))

ScanSign(r, signed) == ScanUnsigned(r, IF signed THEN 2 ELSE 1, signed /\ r[1] = "-")

FloatScan(r) == ScanSign(r, r # <<>> /\ r[1] \in {"+", "-"})

\* The double nearest to mant * 10^exp, with sign: beyond the largest double
\* (about 1.8 * 10^308) it is an infinity, below the smallest (about
\* 5 * 10^-324) it is zero.
ToDouble(neg, mant, exp) ==
    LET order == NumDigits(mant) + exp
    IN  IF mant = 0 \/ order < 0 - 323 THEN Num(0, 0)
        ELSE IF order > 309 THEN (IF neg THEN NegInfinity ELSE Infinity)
        ELSE Num(IF neg THEN 0 - mant ELSE mant, exp)

\* parseFloat of a string
parseFloat(s) ==
    LET f == FloatScan(TrimStart(s))
    IN  IF f.len = 0 THEN NaN
        ELSE IF f.inf THEN (IF f.neg THEN NegInfinity ELSE Infinity)
        ELSE ToDouble(f.neg, f.mant, f.exp)

\* parseInt(s) of a string without a 0x prefix: the leading decimal integer
parseInt(s) ==
    LET r == TrimStart(s)
        signed == r # <<>> /\ r[1] \in {"+", "-"}
        b == IF signed THEN 2 ELSE 1
        ni == DigitRun(r, b)
    IN  IF ni = 0 THEN NaN
        ELSE Num(IF signed /\ r[1] = "-" THEN 0 - DigitsValue(r, b, ni)
                 ELSE DigitsValue(r, b, ni), 0)

\* v <= 0 for a number v
LeqZero(v) ==
    CASE v.k = "finite" -> v.n <= 0
      [] v.k = "-Infinity" -> TRUE
      [] OTHER -> FALSE

\* Number.isNaN
IsNaN(v) == v.t = "number" /\ v.k = "NaN"

\* -------------------------------------------------------- validateProduct

NameMessage == "Name is required and must be a non-empty string"
PriceMessage == "Price is required and must be a positive number"

\* the first condition of validateProduct: the name is refused
NameRefused(p) ==
    \/ ~p.present
    \/ ~Truthy(p.name)
    \/ p.name.t # "string"
    \/ Trim(p.name.s) = <<>>

\* priceNum: a string price goes through parseFloat, any other value is kept
PriceNum(p) == IF p.price.t = "string" THEN parseFloat(p.price.s) ELSE p.price

\* the second condition of validateProduct: the price is refused
PriceRefused(p) ==
    \/ ~p.present
    \/ LET priceNum == PriceNum(p)
       IN  \/ ~Truthy(priceNum)
           \/ priceNum.t # "number"
           \/ LeqZero(priceNum)
           \/ IsNaN(priceNum)

\* the list validateProduct returns
ValidateProductErrors(p) ==
    (IF NameRefused(p) THEN <<NameMessage>> ELSE <<>>)
    \o (IF PriceRefused(p) THEN <<PriceMessage>> ELSE <<>>)

RECURSIVE StripZeros(_)
\* [m, e] with m * 10^e the same number and m not a multiple of 10 (m > 0)
StripZeros(d) ==
    IF d.m % 10 = 0 THEN StripZeros([m |-> d.m \div 10, e |-> d.e + 1]) ELSE d

DigitChar == [d \in 0..9 |-> CHOOSE c \in Digits : DigitVal[c] = d]

RECURSIVE DigitChars(_)
\* the decimal digits of m >= 0
DigitChars(m) ==
    IF m < 10 THEN <<DigitChar[m]>> ELSE Append(DigitChars(m \div 10), DigitChar[m % 10])

Zeros(n) == [i \in 1..n |-> "0"]

\* Number::toString of a positive finite number with digits 'digits' and n
\* digits before the decimal point
PositiveToString(digits, n) ==
    LET k == Len(digits)
    IN  IF k <= n /\ n <= 21 THEN digits \o Zeros(n - k)
        ELSE IF 0 < n /\ n <= 21 THEN SubSeq(digits, 1, n) \o <<".">> \o SubSeq(digits, n + 1, k)
        ELSE IF 0 - 6 < n /\ n <= 0 THEN <<"0", ".">> \o Zeros(0 - n) \o digits
        ELSE (IF k = 1 THEN digits ELSE <<digits[1], ".">> \o SubSeq(digits, 2, k))
             \o <<"e", IF n - 1 < 0 THEN "-" ELSE "+">>
             \o DigitChars(IF n - 1 < 0 THEN 1 - n ELSE n - 1)

\* String(v) for a number v
NumberToString(v) ==
    CASE v.k = "NaN" -> <<"N", "a", "N">>
      [] v.k = "Infinity" -> INFINITY
      [] v.k = "-Infinity" -> <<"-">> \o INFINITY
      [] v.k = "finite" /\ v.n = 0 -> <<"0">>
      [] OTHER ->
           LET d == StripZeros([m |-> IF v.n < 0 THEN 0 - v.n ELSE v.n, e |-> v.e])
               digits == DigitChars(d.m)
           IN  (IF v.n < 0 THEN <<"-">> ELSE <<>>)
               \o PositiveToString(digits, Len(digits) + d.e)

\* variant of the price conversion: parseInt(price)
ParseIntOf(v) ==
    CASE v.t = "string" -> parseInt(v.s)
      [] v.t = "number" -> parseInt(NumberToString(v))
      [] OTHER -> NaN
\* parseFloat(price): the argument is converted to a string first; undefined,
\* null, true and a plain object give strings that hold no number
ParseFloatOf(v) ==
    CASE v.t = "string" -> parseFloat(v.s)
      [] v.t = "number" -> parseFloat(NumberToString(v))
      [] OTHER -> NaN

\* the fields a handler derives from the payload: name.trim() and
\* parseFloat(price); name is a string once validateProduct accepted it
ProductFields(name, price) ==
    [present |-> TRUE, name |-> Str(Trim(name.s)), price |-> ParseFloatOf(price)]

\* values drawn for candidate.name
NameValues ==
    { Undef, Null, Num(123, 0), Bool(TRUE),
      Str(<<>>), Str(<<" ", " ">>), Str(<<"\t">>),
      Str(<<"x">>), Str(<<" ", "x", " ">>), Str(<<"T", "e", "a">>) }

\* values drawn for candidate.price
PriceValues ==
    { Undef, Null, Bool(TRUE), Obj,
      Num(1999, 0 - 2), Num(1, 0), Num(0, 0), Num(0 - 1, 0), Num(0 - 599, 0 - 2),
      NaN, Infinity, NegInfinity,
      Str(<<"1", "9", ".", "9", "9">>), Str(<<"7">>), Str(<<" ", "7">>),
      Str(<<"+", "3">>), Str(<<".", "5">>), Str(<<"5", ".">>), Str(<<"1", "e", "3">>),
      Str(<<"0">>), Str(<<"0", ".", "0", "0">>), Str(<<"-", "5">>), Str(<<>>),
      Str(<<"a", "b", "c">>), Str(<<".">>), Str(<<"-">>),
      Str(<<"1", "2", "a", "b", "c">>), Str(<<"1", "e", "9", "9", "9">>),
      Str(<<"1", "e", "-", "9", "9", "9">>), Str(INFINITY) }

NoCandidate == [present |-> FALSE, name |-> Undef, price |-> Undef]

\* values drawn for the candidate: null/undefined, or an object
Candidates ==
    {NoCandidate}
    \cup {[present |-> TRUE, name |-> n, price |-> q] : n \in NameValues, q \in PriceValues}

validateProduct ==
    /\ ~validated
    /\ errors' = ValidateProductErrors(candidate)
    /\ validated' = TRUE
    /\ UNCHANGED <<candidate, record, recordErrors, gateVars, cartVars, idVars, artVars, httpVars, authVars, docVars, chatVars, creates>>

\* the record the create and update handlers build after validateProduct
\* accepted the payload, given to validateProduct again
validateRecord ==
    /\ validated
    /\ errors = <<>>
    /\ record = <<>>
    /\ record' = <<ProductFields(candidate.name, candidate.price)>>
    /\ recordErrors' = ValidateProductErrors(record'[1])
    /\ UNCHANGED <<candidate, errors, validated, gateVars, cartVars, idVars, artVars, httpVars, authVars, docVars, chatVars, creates>>

\* validateProduct has not been called
ValidateIdle ==
    /\ errors = <<>>
    /\ validated = FALSE
    /\ record = <<>>
    /\ recordErrors = <<>>

\* ------------------------------------------------------------ flat files

\* A JSON file is missing, holds text that is no JSON ("malformed"), holds
\* JSON that is no array ("nonarray"), or holds an array ("ok", data).
FileStates == {"ok", "missing", "malformed", "nonarray"}

File(st, data) == [st |-> st, data |-> data]

\* variant of readJson without the default value: a failed read yields
\* undefined, which is no array
readJsonNoFallback(f) ==
    IF f.st = "ok" THEN [isArray |-> TRUE, items |-> f.data]
    ELSE [isArray |-> FALSE, items |-> <<>>]
\* readJson(filePath, []): the parsed content, or [] when reading or parsing
\* raises; what JSON.parse returns is returned whether or not it is an array
readJson(f) ==
    CASE f.st = "ok" -> [isArray |-> TRUE, items |-> f.data]
      [] f.st = "nonarray" -> [isArray |-> FALSE, items |-> <<>>]
      [] OTHER -> [isArray |-> TRUE, items |-> <<>>]

readCart == readJson(cartFile)
readProducts == readJson(productsFile)

\* ---------------------------------------------------------- cart pricing

\* Amounts are whole numbers of cents and quantities whole numbers: the
\* rounding of floating-point sums is not modelled.

\* the amount in cents of a price, a number of at most two decimals as the
\* catalog file holds it; null, which multiplies as 0, gives 0
Cents(price) == IF price.t = "number" /\ price.k = "finite" THEN price.n * 10 ^ (price.e + 2) ELSE 0

TEA == <<"T", "e", "a">>
MUG == <<"M", "u", "g">>

\* catalog records drawn for data/products.json; two of them share id 1
ProductPool ==
    { [id |-> 1, name |-> TEA, price |-> Num(1050, 0 - 2)],
      [id |-> 2, name |-> MUG, price |-> Num(2599, 0 - 2)],
      [id |-> 1, name |-> MUG, price |-> Num(3, 0)] }

\* productId and quantity values drawn for a cart item; 999 is in no catalog
CartProductIds == {1, 2, 999}
CartQuantities == {1, 2}

\* the cart whose i-th item has id i and the i-th (productId, quantity) of pairs
CartOf(pairs) ==
    [i \in 1..Len(pairs) |->
        [id |-> i, productId |-> pairs[i][1], quantity |-> pairs[i][2], addedAt |-> 1000 + i]]

Carts == {CartOf(ps) : ps \in SeqUpTo(CartProductIds \X CartQuantities, MaxCart)}
Catalogs == SeqUpTo(ProductPool, MaxProducts)

CartFiles == {File("ok", c) : c \in Carts} \cup {File(st, <<>>) : st \in FileStates \ {"ok"}}
ProductsFiles ==
    {File("ok", c) : c \in Catalogs} \cup {File(st, <<>>) : st \in FileStates \ {"ok"}}

\* variant of find that returns the last match
FindLast(products, productId) ==
    LET hits == {i \in 1..Len(products) : products[i].id = productId}
    IN  IF hits = {} THEN <<>>
        ELSE <<products[CHOOSE i \in hits : \A j \in hits : j <= i]>>
\* products.find((p) => p.id === productId): <<the first match>>, or <<>> for
\* undefined
Find(products, productId) ==
    LET hits == {i \in 1..Len(products) : products[i].id = productId}
    IN  IF hits = {} THEN <<>>
        ELSE <<products[CHOOSE i \in hits : \A j \in hits : i <= j]>>

RECURSIVE BalanceIgnoringQuantity(_, _)
\* variant of the reduce that adds the price once per item
BalanceIgnoringQuantity(cartItems, products) ==
    IF cartItems = <<>> THEN 0
    ELSE LET n == Len(cartItems)
             total == BalanceIgnoringQuantity(SubSeq(cartItems, 1, n - 1), products)
             product == Find(products, cartItems[n].productId)
         IN  IF product # <<>> THEN total + Cents(product[1].price) ELSE total

RECURSIVE ReduceBalance(_, _)
\* cartItems.reduce((total, cartItem) => ..., 0), left to right
ReduceBalance(cartItems, products) ==
    IF cartItems = <<>> THEN 0
    ELSE LET n == Len(cartItems)
             total == ReduceBalance(SubSeq(cartItems, 1, n - 1), products)
             product == Find(products, cartItems[n].productId)
         IN  IF product # <<>> THEN total + Cents(product[1].price) * cartItems[n].quantity
             ELSE total

\* calculateBalance(cartItems, products)
CalculateBalance(cartItems, products) == ReduceBalance(cartItems, products)

\* variant of the map callback whose subtotal is the bare price
LineWithoutQuantity(cartItem, products) ==
    LET product == Find(products, cartItem.productId)
    IN  [product |-> product,
         subtotal |-> IF product # <<>> THEN Cents(product[1].price) ELSE 0] @@ cartItem
\* one element of cartWithDetails: the cart item's fields, then product
\* (<<>> for null) and subtotal
Line(cartItem, products) ==
    LET product == Find(products, cartItem.productId)
    IN  [product |-> product,
         subtotal |-> IF product # <<>> THEN Cents(product[1].price) * cartItem.quantity ELSE 0]
        @@ cartItem

\* variant of the item count: cartItems.length
CountLines(cartItems) == Len(cartItems)

RECURSIVE SumQuantity(_)
\* cartItems.reduce((sum, item) => sum + item.quantity, 0)
SumQuantity(cartItems) ==
    IF cartItems = <<>> THEN 0
    ELSE SumQuantity(SubSeq(cartItems, 1, Len(cartItems) - 1))
         + cartItems[Len(cartItems)].quantity

EmptySummary == [items |-> <<>>, balance |-> 0, itemCount |-> 0]

\* one entry of history: the call, the files it read, what it raised and
\* what it returned
Call(name, raised, returnedSummary, returnedBalance) ==
    [op |-> name, cart |-> cartFile, products |-> productsFile, thrown |-> raised,
     summary |-> returnedSummary, balance |-> returnedBalance]

\* variant of getCartWithDetails that saves the detailed lines back to
\* data/cart.json
getCartWithDetailsSaving ==
    /\ Len(history) < MaxCalls
    /\ op' = "getCartWithDetails"
    /\ LET cartItems == readCart
           products == readProducts
       IN  IF ~cartItems.isArray \/ (cartItems.items # <<>> /\ ~products.isArray)
             THEN /\ cartThrown' = "TypeError"
                  /\ history' = Append(history, Call("getCartWithDetails", "TypeError", EmptySummary, 0))
                  /\ UNCHANGED <<summary, cartFile>>
             ELSE /\ summary' =
                       [items |-> [i \in 1..Len(cartItems.items) |->
                                      Line(cartItems.items[i], products.items)],
                        balance |-> CalculateBalance(cartItems.items, products.items),
                        itemCount |-> SumQuantity(cartItems.items)]
                  /\ cartThrown' = "none"
                  /\ cartFile' = File("ok", summary'.items)
                  /\ history' = Append(history, Call("getCartWithDetails", "none", summary', 0))
    /\ UNCHANGED <<productsFile, balance, gateVars, validateVars, idVars, artVars, httpVars, authVars, docVars, chatVars, creates>>

\* variant of getCartWithDetails that drops the lines whose product is
\* missing, from the summary and from data/cart.json
getCartWithDetailsDroppingOrphans ==
    /\ Len(history) < MaxCalls
    /\ op' = "getCartWithDetails"
    /\ LET cartItems == readCart
           products == readProducts
           kept == SelectSeq(cartItems.items,
                             LAMBDA item : Find(products.items, item.productId) # <<>>)
       IN  /\ summary' =
                  [items |-> [i \in 1..Len(kept) |-> Line(kept[i], products.items)],
                   balance |-> CalculateBalance(kept, products.items),
                   itemCount |-> SumQuantity(kept)]
           /\ cartThrown' = "none"
           /\ cartFile' = File("ok", kept)
           /\ history' = Append(history, Call("getCartWithDetails", "none", summary', 0))
    /\ UNCHANGED <<productsFile, balance, gateVars, validateVars, idVars, artVars, httpVars, authVars, docVars, chatVars, creates>>

\* getCartWithDetails(): cartItems.map raises when the cart file holds no
\* array, products.find raises inside the first callback when the products
\* file holds none; nothing is written
getCartWithDetails ==
    /\ Len(history) < MaxCalls
    /\ op' = "getCartWithDetails"
    /\ LET cartItems == readCart
           products == readProducts
       IN  IF ~cartItems.isArray \/ (cartItems.items # <<>> /\ ~products.isArray)
             THEN /\ cartThrown' = "TypeError"
                  /\ history' = Append(history, Call("getCartWithDetails", "TypeError", EmptySummary, 0))
                  /\ UNCHANGED summary
             ELSE /\ summary' =
                       [items |-> [i \in 1..Len(cartItems.items) |->
                                      Line(cartItems.items[i], products.items)],
                        balance |-> CalculateBalance(cartItems.items, products.items),
                        itemCount |-> SumQuantity(cartItems.items)]
                  /\ cartThrown' = "none"
                  /\ history' = Append(history, Call("getCartWithDetails", "none", summary', 0))
    /\ UNCHANGED <<cartFile, productsFile, balance, gateVars, validateVars, idVars, artVars, httpVars, authVars, docVars, chatVars, creates>>

\* calculateBalance called with the arrays the two files hold
calculateBalance ==
    /\ Len(history) < MaxCalls
    /\ cartFile.st = "ok"
    /\ productsFile.st = "ok"
    /\ op' = "calculateBalance"
    /\ balance' = CalculateBalance(cartFile.data, productsFile.data)
    /\ cartThrown' = "none"
    /\ history' = Append(history, Call("calculateBalance", "none", EmptySummary, balance'))
    /\ UNCHANGED <<cartFile, productsFile, summary, gateVars, validateVars, idVars, artVars, httpVars, authVars, docVars, chatVars, creates>>

\* no pricing call has been made
CartIdle ==
    /\ op = "none"
    /\ summary = EmptySummary
    /\ balance = 0
    /\ cartThrown = "none"
    /\ history = <<>>

\* ------------------------------------------------------------- generateId

RECURSIVE MaxId(_)
\* Math.max(...items.map((i) => i.id)) for a non-empty array of items
MaxId(items) ==
    IF Len(items) = 1 THEN items[1].id
    ELSE LET rest == MaxId(SubSeq(items, 1, Len(items) - 1))
             last == items[Len(items)].id
         IN  IF last > rest THEN last ELSE rest

\* variant of generateId that counts the items
GenerateIdByLength(items) == Len(items.items) + 1
\* generateId(items), items being [isArray, items] as readJson returns it
GenerateId(items) ==
    IF ~items.isArray \/ Len(items.items) = 0 THEN 1
    ELSE MaxId(items.items) + 1

\* ids drawn for the items given to generateId
ItemIds == {-5, -1, 2, 10}
\* the arguments drawn: arrays of items with an id, and what is no array
\* (undefined, null, a string, a number, a plain object)
ItemArrays == {[isArray |-> TRUE, items |-> [i \in 1..Len(ids) |-> [id |-> ids[i]]]] :
                  ids \in SeqUpTo(ItemIds, MaxItems)}
NoArray == [isArray |-> FALSE, items |-> <<>>]

generateId ==
    /\ newId = <<>>
    /\ newId' = <<GenerateId(existingItems)>>
    /\ UNCHANGED <<existingItems, gateVars, validateVars, cartVars, artVars, httpVars, authVars, docVars, chatVars, creates>>

\* generateId has not been called
IdIdle == newId = <<>>

\* -------------------------------------------- /articles mutation routes

\* Joi.string().max(100) of productSchema
MaxNameLength == 100

\* a name one character longer than productSchema allows
LongName == [i \in 1..(MaxNameLength + 1) |-> "a"]

\* values drawn for req.user.roles of a requester the JWT middleware let in
ArticleRoles ==
    { Arr(<<ADMIN>>), Arr(<<USER>>), Str(ADMIN \o <<"s">>), Num(42, 0) }
ArticleUsers == {[present |-> TRUE, roles |-> r] : r \in ArticleRoles}

\* values drawn for req.body: { name, price }
ArticleBodies ==
    {[name |-> n, price |-> q] :
        n \in {Str(TEA), Str(<<" ", "x", " ">>), Str(LongName), Str(<<>>)},
        q \in {Str(<<"1", "9", ".", "9", "9">>), Str(<<"1", "e", "9", "9", "9">>), Num(0, 0)}}
NoBody == [name |-> Undef, price |-> Undef]

\* values drawn for req.params.id
IdParams == {<<"1">>, <<"2">>, <<"x">>}

\* what JSON.stringify and JSON.parse make of a number: NaN and the
\* infinities are written as null
JsonValue(v) == IF v.t = "number" /\ v.k # "finite" THEN Null ELSE v

\* variant of writeProducts that writes the newest record only
writeNewestProduct(products) ==
    File("ok", IF products = <<>> THEN <<>> ELSE <<products[Len(products)]>>)
\* writeProducts(products): the file holds the array as JSON
writeProducts(products) ==
    File("ok", [i \in 1..Len(products) |-> [products[i] EXCEPT !.price = JsonValue(@)]])

\* products.findIndex((p) => p.id === productId): the first index, 0 for -1
FindIndex(products, productId) ==
    LET hits == {i \in 1..Len(products) : products[i].id = productId}
    IN  IF hits = {} THEN 0 ELSE CHOOSE i \in hits : \A j \in hits : i <= j

\* products with the element at index i removed (splice(i, 1))
Splice(products, i) == SubSeq(products, 1, i - 1) \o SubSeq(products, i + 1, Len(products))

\* the body of the POST / handler
CreateHandler(body) ==
    LET products == readProducts
        fields == ProductFields(body.name, body.price)
        newProduct == [id |-> GenerateId(products), name |-> fields.name.s,
                       price |-> fields.price, createdAt |-> served + 1, updatedAt |-> 0]
    IN  IF ValidateProductErrors([present |-> TRUE, name |-> body.name, price |-> body.price]) # <<>>
          THEN artRes' = 400 /\ UNCHANGED productsFile
        ELSE IF ~products.isArray
          THEN artRes' = 500 /\ UNCHANGED productsFile
        ELSE /\ productsFile' = writeProducts(Append(products.items, newProduct))
             /\ artRes' = 201

\* the body of the PUT /:id handler
UpdateHandler(id, body) ==
    LET productId == parseInt(id)
        products == readProducts
        productIndex == FindIndex(products.items, productId.n)
        fields == ProductFields(body.name, body.price)
    IN  IF IsNaN(productId)
          THEN artRes' = 400 /\ UNCHANGED productsFile
        ELSE IF ValidateProductErrors([present |-> TRUE, name |-> body.name, price |-> body.price]) # <<>>
          THEN artRes' = 400 /\ UNCHANGED productsFile
        ELSE IF ~products.isArray
          THEN artRes' = 500 /\ UNCHANGED productsFile
        ELSE IF productIndex = 0
          THEN artRes' = 404 /\ UNCHANGED productsFile
        ELSE /\ productsFile' =
                    writeProducts([products.items EXCEPT
                                      ![productIndex] = [@ EXCEPT !.name = fields.name.s,
                                                                  !.price = fields.price,
                                                                  !.updatedAt = served + 1]])
             /\ artRes' = 200

\* the body of the DELETE /:id handler
DeleteHandler(id) ==
    LET productId == parseInt(id)
        products == readProducts
        productIndex == FindIndex(products.items, productId.n)
    IN  IF IsNaN(productId)
          THEN artRes' = 400 /\ UNCHANGED productsFile
        ELSE IF ~products.isArray
          THEN artRes' = 500 /\ UNCHANGED productsFile
        ELSE IF productIndex = 0
          THEN artRes' = 404 /\ UNCHANGED productsFile
        ELSE /\ productsFile' = writeProducts(Splice(products.items, productIndex))
             /\ artRes' = 200

\* the body of the DELETE / handler
DeleteAllHandler ==
    /\ productsFile' = writeProducts(<<>>)
    /\ artRes' = 200

\* One request on a mutation route: adminMiddleware, then the handler.  A
\* TypeError raised by the gate goes to the application's error handler,
\* which answers 500.
ArticlesRoute(u, request, handler) ==
    /\ served < MaxRequests
    /\ served' = served + 1
    /\ user' = u
    /\ artReq' = request
    /\ IF IncludesThrows(u) THEN artRes' = 500 /\ UNCHANGED productsFile
       ELSE IF ~AdminAllows(u) THEN artRes' = 403 /\ UNCHANGED productsFile
       ELSE handler
    /\ artData' = <<>>
    /\ issued' = IF request.method = "POST" /\ artRes' = 201
                   THEN Append(issued, productsFile'.data[Len(productsFile'.data)].id)
                   ELSE issued
    /\ UNCHANGED <<resMode, gate, nextCalls, statusArgs, jsonArgs, thrown>>
    /\ UNCHANGED <<cartFile, op, summary, balance, cartThrown, history>>
    /\ UNCHANGED <<validateVars, idVars, httpVars, authVars, docVars, chatVars>>

createProduct ==
    /\ \E u \in ArticleUsers, body \in ArticleBodies :
           ArticlesRoute(u, [method |-> "POST", id |-> <<>>, body |-> body], CreateHandler(body))
    /\ UNCHANGED creates

updateProduct ==
    /\ \E u \in ArticleUsers, id \in IdParams, body \in ArticleBodies :
           ArticlesRoute(u, [method |-> "PUT", id |-> id, body |-> body], UpdateHandler(id, body))
    /\ UNCHANGED creates

\* A PUT /:id request sent without a body.  express.json() leaves req.body
\* an empty object (name and price undefined) or leaves it undefined,
\* depending on the body parser of the installed Express; destructuring
\* undefined raises inside the handler's try, which answers 500.
updateProductNoBody ==
    /\ \E u \in ArticleUsers, id \in IdParams, emptyObject \in BOOLEAN :
           ArticlesRoute(u, [method |-> "PUT", id |-> id, body |-> NoBody],
                         IF emptyObject THEN UpdateHandler(id, NoBody)
                         ELSE artRes' = 500 /\ UNCHANGED productsFile)
    /\ UNCHANGED creates

deleteProduct ==
    /\ \E u \in ArticleUsers, id \in IdParams :
           ArticlesRoute(u, [method |-> "DELETE", id |-> id, body |-> NoBody], DeleteHandler(id))
    /\ UNCHANGED creates

deleteAllProducts ==
    /\ \E u \in ArticleUsers :
           ArticlesRoute(u, [method |-> "DELETE", id |-> <<>>, body |-> NoBody], DeleteAllHandler)
    /\ UNCHANGED creates

\* values drawn for req.params.id of GET /:id: the ids of IdParams, a
\* decimal, a negative number and a word
GetIdParams ==
    IdParams \cup {<<"1", ".", "5">>, <<"-", "1">>, <<"i", "n", "v", "a", "l", "i", "d", "-", "i", "d">>}

\* the body of the GET /:id handler: the status and the product sent
GetHandler(id) ==
    LET products == readProducts
        productId == parseInt(id)
        product == Find(products.items, productId.n)
    IN  IF IsNaN(productId) THEN [status |-> 400, data |-> <<>>]
        ELSE IF ~products.isArray THEN [status |-> 500, data |-> <<>>]
        ELSE IF product = <<>> THEN [status |-> 404, data |-> <<>>]
        ELSE [status |-> 200, data |-> product]

\* One GET /articles/:id request: securityMiddleware, then the handler.
getProduct ==
    \E u \in ArticleUsers, id \in GetIdParams :
        LET answer == GetHandler(id)
        IN  /\ served < MaxRequests
            /\ served' = served + 1
            /\ user' = u
            /\ artReq' = [method |-> "GET", id |-> id, body |-> NoBody]
            /\ IF IncludesThrows(u) THEN artRes' = 500 /\ artData' = <<>>
               ELSE IF ~SecurityAllows(u) THEN artRes' = 403 /\ artData' = <<>>
               ELSE artRes' = answer.status /\ artData' = answer.data
            /\ UNCHANGED <<productsFile, issued>>
            /\ UNCHANGED <<resMode, gate, nextCalls, statusArgs, jsonArgs, thrown>>
            /\ UNCHANGED <<cartFile, op, summary, balance, cartThrown, history>>
            /\ UNCHANGED <<validateVars, idVars, httpVars, authVars, docVars, chatVars, creates>>

\* no request has been served
ArticlesIdle ==
    /\ artReq = [method |-> "none", id |-> <<>>, body |-> NoBody]
    /\ artRes = 0
    /\ served = 0
    /\ artData = <<>>
    /\ issued = <<>>

\* ------------------------------------------------- the middleware chain

BEARER == <<"B", "e", "a", "r", "e", "r", " ">>

\* tokens drawn for the requests, and what JWT.verify makes of them: t1, t2
\* and t5 carry a good signature, t3 a forged one, t4 has expired; any other
\* string is no JWT at all
T1 == <<"t", "1">>
T2 == <<"t", "2">>
T3 == <<"t", "3">>
T4 == <<"t", "4">>
T5 == <<"t", "5">>
TokenClaims ==
    (T1 :> [present |-> TRUE, roles |-> Arr(<<USER>>)])
    @@ (T2 :> [present |-> TRUE, roles |-> Arr(<<ADMIN>>)])
    @@ (T3 :> [present |-> TRUE, roles |-> Arr(<<ADMIN>>)])
    @@ (T4 :> [present |-> TRUE, roles |-> Arr(<<USER>>)])
    @@ (T5 :> [present |-> TRUE, roles |-> Arr(<< <<"g", "u", "e", "s", "t">> >>)])
GoodTokens == {T1, T2, T5}

\* variant of the verification that only decodes the payload (JWT.decode)
JwtDecode(token) ==
    IF token \in DOMAIN TokenClaims THEN [ok |-> TRUE, decoded |-> TokenClaims[token]]
    ELSE [ok |-> FALSE, decoded |-> NoUser]
\* JWT.verify(token, secret): the decoded payload, or an exception (ok FALSE)
JwtVerify(token) ==
    IF token \in GoodTokens THEN [ok |-> TRUE, decoded |-> TokenClaims[token]]
    ELSE [ok |-> FALSE, decoded |-> NoUser]

\* values drawn for req.headers.authorization
AuthHeaders ==
    { Undef, Str(<<>>), Str(<<"B", "e", "a", "r", "e", "r">>), Str(BEARER),
      Str(BEARER \o <<" ", " ">>), Str(<<"B", "a", "s", "i", "c", " ">> \o T1),
      Str(<<"b", "e", "a", "r", "e", "r", " ">> \o T1), Str(T1),
      Str(BEARER \o T1), Str(BEARER \o <<" ">> \o T2 \o <<" ">>), Str(BEARER \o T2),
      Str(BEARER \o T3), Str(BEARER \o T4), Str(BEARER \o T5), Str(BEARER \o <<"x">>) }

\* the mount points of app.js: the first is public, the others come after
\* app.use(authMiddleware)
PublicPaths == {"/login"}
ProtectedPaths == {"/articles", "/cart", "/documents"}

\* res.status(code).json(...)
Respond(code) ==
    /\ responses' = Append(responses, code)
    /\ stage' = "answered"

\* a router mounted before the JWT middleware handles the request
publicRoute ==
    /\ stage = "received"
    /\ httpReq.path \in PublicPaths
    /\ handlerRuns' = handlerRuns + 1
    /\ Respond(200)
    /\ UNCHANGED <<httpReq, gateVars, validateVars, cartVars, idVars, artVars, authVars, docVars, chatVars, creates>>

\* JWTmiddleware(req, res, next)
JWTmiddleware ==
    /\ stage = "received"
    /\ httpReq.path \in ProtectedPaths
    /\ LET authHeader == httpReq.authorization
           token == Trim(SubSeq(authHeader.s, 8, Len(authHeader.s)))
           verified == JwtVerify(token)
       IN  IF ~Truthy(authHeader) \/ ~StartsWithAt(authHeader.s, 1, BEARER)
             THEN Respond(401) /\ UNCHANGED user
           ELSE IF token = <<>>
             THEN Respond(401) /\ UNCHANGED user
           ELSE IF ~verified.ok
             THEN Respond(500) /\ UNCHANGED user
           ELSE /\ user' = verified.decoded
                /\ stage' = "authenticated"
                /\ UNCHANGED responses
    /\ UNCHANGED <<httpReq, handlerRuns>>
    /\ UNCHANGED <<resMode, gate, nextCalls, statusArgs, jsonArgs, thrown>>
    /\ UNCHANGED <<validateVars, cartVars, idVars, artVars, authVars, docVars, chatVars, creates>>

\* the router of the path, reached through next(): the member gate, then
\* the route handler, which answers
protectedRoute ==
    /\ stage = "authenticated"
    /\ IF IncludesThrows(user) THEN Respond(500) /\ UNCHANGED handlerRuns
       ELSE IF ~SecurityAllows(user) THEN Respond(403) /\ UNCHANGED handlerRuns
       ELSE handlerRuns' = handlerRuns + 1 /\ Respond(200)
    /\ UNCHANGED <<httpReq, gateVars, validateVars, cartVars, idVars, artVars, authVars, docVars, chatVars, creates>>

\* no request has been received
HttpIdle ==
    /\ httpReq = [path |-> "/login", authorization |-> Undef]
    /\ stage = "answered"
    /\ responses = <<>>
    /\ handlerRuns = 0

\* ------------------------------------------------ registration and login

\* password.trim().length < 8
MinPasswordLength == 8

ALICE == <<"a", "@", "x", ".", "y">>
ROOT == <<"r", "@", "x", ".", "y">>
BOB == <<"b", "@", "x", ".", "y">>
PASSWORD1 == <<"p", "a", "s", "s", "w", "o", "r", "d", "1">>
ROOTPASS == <<"r", "o", "o", "t", "r", "o", "o", "t">>

\* bcrypt.hash(chars, 10): the salted hash is kept as what it is the hash of,
\* and bcrypt.compare(chars, hash) tells whether it is the hash of chars
Hash(chars) == [hashOf |-> chars]
\* variant of the comparison that accepts every password
CompareAlwaysTrue(chars, hash) == TRUE
Compare(chars, hash) == hash = Hash(chars)

\* the lowercase setter of the schema, for the letters the emails drawn hold
UpperToLower == ("A" :> "a") @@ ("B" :> "b") @@ ("R" :> "r") @@ ("X" :> "x") @@ ("Y" :> "y")
ToLowerCase(s) ==
    [i \in 1..Len(s) |-> IF s[i] \in DOMAIN UpperToLower THEN UpperToLower[s[i]] ELSE s[i]]

\* [^\s@]+ : s is not empty and holds neither white space nor "@"
PlainRun(s) == s # <<>> /\ \A i \in 1..Len(s) : s[i] \notin WhiteSpace \cup {"@"}

\* the match of the schema: /^[^\s@]+@[^\s@]+\.[^\s@]+$/
MatchesEmailPattern(s) ==
    \E i \in 1..Len(s), j \in 1..Len(s) :
        /\ i < j
        /\ s[i] = "@"
        /\ s[j] = "."
        /\ PlainRun(SubSeq(s, 1, i - 1))
        /\ PlainRun(SubSeq(s, i + 1, j - 1))
        /\ PlainRun(SubSeq(s, j + 1, Len(s)))

UserDoc(id, email, password, roles) ==
    [id |-> id, email |-> email, password |-> password, roles |-> roles]

\* the collections drawn: empty, or one member and one administrator
RegisteredUsers ==
    << UserDoc(1, ALICE, Hash(PASSWORD1), Arr(<<USER>>)),
       UserDoc(2, ROOT, Hash(ROOTPASS), Arr(<<ADMIN, USER>>)) >>
StoredUsers == {<<>>, RegisteredUsers}

\* User.findOne({ email }): <<the document>>, or <<>> for null; an undefined
\* email matches no document
FindOne(docs, email) ==
    LET hits == {i \in 1..Len(docs) : email.t = "string" /\ docs[i].email = email.s}
    IN  IF hits = {} THEN <<>> ELSE <<docs[CHOOSE i \in hits : \A j \in hits : i <= j]>>

\* values drawn for req.body.email and req.body.password of a registration
RegisterEmails ==
    { Undef, Str(ALICE), Str(<<" ">> \o ALICE), Str(BOB), Str(<<"b", "o", "b">>) }
RegisterPasswords ==
    { Undef, Num(12345678, 0), Str(<<"1", "2", "3">>), Str(PASSWORD1) }

\* values drawn for req.body.roles of a registration
RegisterRoles == {Undef, Arr(<<ADMIN>>)}

\* variant of the roles of a new user: the roles of the body, the schema's
\* default without them
RolesFromBody(roles) == IF roles = Undef THEN Arr(<<USER>>) ELSE roles
\* roles: ['user'] of new User({ ... }): the roles of the body are not used
NewUserRoles(roles) == Arr(<<USER>>)

\* the registrations that may be in flight together
RegisterSlots == {1, 2}

NoRegistration ==
    [pc |-> "new", email |-> Undef, password |-> Undef, roles |-> Undef, existingUser |-> <<>>,
     hashedPassword |-> <<>>, status |-> 0]

\* POST /register up to its first await: the body is read and
\* User.findOne({ email }) answers
registerFindOne(r) ==
    /\ regs[r].pc = "new"
    /\ \E email \in RegisterEmails, password \in RegisterPasswords, roles \in RegisterRoles :
           regs' = [regs EXCEPT ![r] =
                       [NoRegistration EXCEPT !.pc = "hash", !.email = email,
                                              !.password = password, !.roles = roles,
                                              !.existingUser = FindOne(users, email)]]
    /\ UNCHANGED <<users, login, gateVars, validateVars, cartVars, idVars, artVars, httpVars, docVars, chatVars, creates>>

\* await bcrypt.hash(password, 10), outside the try: a password that is no
\* string makes it reject, and the handler ends without a response (the
\* request hangs) or, where the framework forwards the rejection to the
\* error handler, with 500
registerHash(r) ==
    /\ regs[r].pc = "hash"
    /\ IF regs[r].password.t = "string"
         THEN regs' = [regs EXCEPT ![r].pc = "try",
                                   ![r].hashedPassword = <<Hash(regs[r].password.s)>>]
         ELSE \/ regs' = [regs EXCEPT ![r].pc = "hung"]
              \/ regs' = [regs EXCEPT ![r].pc = "done", ![r].status = 500]
    /\ UNCHANGED <<users, login, gateVars, validateVars, cartVars, idVars, artVars, httpVars, docVars, chatVars, creates>>

\* the try block: 409, 422, or new User(...).save(), whose validation or
\* unique index may fail (500, from the catch), then 201
registerTry(r) ==
    /\ regs[r].pc = "try"
    /\ LET email == regs[r].email
           password == regs[r].password
           saved == ToLowerCase(Trim(email.s))
       IN  IF regs[r].existingUser # <<>>
             THEN regs' = [regs EXCEPT ![r].pc = "done", ![r].status = 409] /\ UNCHANGED users
           ELSE IF ~Truthy(password) \/ Len(Trim(password.s)) < MinPasswordLength
             THEN regs' = [regs EXCEPT ![r].pc = "done", ![r].status = 422] /\ UNCHANGED users
           ELSE IF \/ email.t # "string"
                   \/ ~MatchesEmailPattern(saved)
                   \/ FindOne(users, Str(saved)) # <<>>
             THEN regs' = [regs EXCEPT ![r].pc = "done", ![r].status = 500] /\ UNCHANGED users
           ELSE /\ users' = Append(users, UserDoc(Len(users) + 1, saved,
                                                   regs[r].hashedPassword[1],
                                                   NewUserRoles(regs[r].roles)))
                /\ regs' = [regs EXCEPT ![r].pc = "done", ![r].status = 201]
    /\ UNCHANGED <<login, gateVars, validateVars, cartVars, idVars, artVars, httpVars, docVars, chatVars, creates>>

\* the payload POST /login signs for a stored user, which the JWT
\* middleware attaches to the request as req.user
TokenPayload(doc) == [userId |-> doc.id, email |-> doc.email, roles |-> doc.roles]

\* values drawn for the body of a login
LoginEmails == {Undef, Str(ALICE), Str(ROOT), Str(BOB)}
LoginPasswords == {Undef, Str(PASSWORD1), Str(ROOTPASS), Str(<<"1", "2", "3">>)}

NoLogin == [pc |-> "new", email |-> Undef, password |-> Undef, status |-> 0, token |-> <<>>]

\* POST /login: no user 401; bcrypt.compare raises for a password that is
\* no string (500, from the catch); a match signs { userId, email, roles }
loginUser ==
    /\ login.pc = "new"
    /\ \E email \in LoginEmails, password \in LoginPasswords :
           LET foundUser == FindOne(users, email)
               sent == [NoLogin EXCEPT !.pc = "done", !.email = email, !.password = password]
           IN  IF foundUser = <<>>
                 THEN login' = [sent EXCEPT !.status = 401]
               ELSE IF password.t # "string"
                 THEN login' = [sent EXCEPT !.status = 500]
               ELSE IF Compare(password.s, foundUser[1].password)
                 THEN login' = [sent EXCEPT !.status = 200,
                                            !.token = <<TokenPayload(foundUser[1])>>]
               ELSE login' = [sent EXCEPT !.status = 401]
    /\ UNCHANGED <<users, regs, gateVars, validateVars, cartVars, idVars, artVars, httpVars, docVars, chatVars, creates>>

\* no registration and no login has been received
AuthIdle ==
    /\ regs = [r \in RegisterSlots |-> NoRegistration]
    /\ login = NoLogin

\* ------------------------------------------------------------ /documents

\* req.user.id: the id property of the decoded payload, undefined when the
\* payload has none
ReqUserId(claims) == IF "id" \in DOMAIN claims THEN Num(claims.id, 0) ELSE Undef

\* a === b for the values compared here: NaN equals nothing
StrictEquals(a, b) == a = b /\ ~IsNaN(a)

\* the requesters: the users of the collection, logged in
DocClaims == {TokenPayload(doc) : doc \in {RegisteredUsers[i] : i \in 1..Len(RegisteredUsers)}}

\* req.file after multer: <<the original name>>, <<>> when no file was sent
PNG == <<"a", ".", "p", "n", "g">>
MP3 == <<"b", ".", "m", "p", "3">>
DocFiles == {<<>>, <<PNG>>, <<MP3>>}

\* readDocuments(): the documents file read like the other flat files
readDocuments == readJson(documentsFile)

\* writeDocumentsData(documents): JSON.stringify leaves out a property whose
\* value is undefined, so that it reads back as undefined
writeDocumentsData(documents) ==
    File("ok", [i \in 1..Len(documents) |-> [documents[i] EXCEPT !.userId = JsonValue(@)]])

\* any /documents request: securityMiddleware, then the handler
DocumentsRoute(claims, request, handler) ==
    /\ docServed < MaxRequests
    /\ docServed' = docServed + 1
    /\ docReq' = request
    /\ IF ~SecurityAllows([present |-> TRUE, roles |-> claims.roles])
         THEN docRes' = 403 /\ docList' = <<>> /\ UNCHANGED <<documentsFile, uploads>>
         ELSE handler
    /\ UNCHANGED <<gateVars, validateVars, cartVars, idVars, artVars, httpVars, authVars, chatVars>>

\* the body of the POST /send handler, run when multer has received the
\* upload: no file 400; else the record is appended, its userId being
\* req.user.id.  On a file that holds no array push raises and the error
\* handler answers 500.
SendHandler(claims, file) ==
    LET documents == readDocuments
        newDocument == [id |-> GenerateId(documents), originalName |-> file[1],
                        userId |-> ReqUserId(claims)]
    IN  /\ docList' = <<>>
        /\ IF file = <<>>
             THEN docRes' = 400 /\ UNCHANGED <<documentsFile, uploads>>
           ELSE IF ~documents.isArray
             THEN docRes' = 500 /\ UNCHANGED <<documentsFile, uploads>>
           ELSE /\ documentsFile' = writeDocumentsData(Append(documents.items, newDocument))
                /\ uploads' = Append(uploads, [id |-> newDocument.id, owner |-> claims.userId])
                /\ docRes' = 200

\* POST /documents/send
sendDocument ==
    /\ \E claims \in DocClaims, file \in DocFiles :
           DocumentsRoute(claims, [method |-> "POST", claims |-> claims, file |-> file],
                          SendHandler(claims, file))
    /\ UNCHANGED creates

\* GET /documents: the records whose userId === req.user.id, reduced to the
\* listed fields
listDocuments ==
    /\ \E claims \in DocClaims :
        DocumentsRoute(claims, [method |-> "GET", claims |-> claims, file |-> <<>>],
            LET documents == readDocuments
                mine == SelectSeq(documents.items,
                                  LAMBDA doc : StrictEquals(doc.userId, ReqUserId(claims)))
            IN  /\ UNCHANGED <<documentsFile, uploads>>
                /\ IF ~documents.isArray
                     THEN docRes' = 500 /\ docList' = <<>>
                     ELSE /\ docRes' = 200
                          /\ docList' = <<[i \in 1..Len(mine) |->
                                             [id |-> mine[i].id, originalName |-> mine[i].originalName]]>>)
    /\ UNCHANGED creates

\* no /documents request has been served
DocsIdle ==
    /\ uploads = <<>>
    /\ docReq = [method |-> "none", claims |-> <<>>, file |-> <<>>]
    /\ docRes = 0
    /\ docList = <<>>
    /\ docServed = 0

\* ---------------------------------------------------------- the chat room

\* previousMessages.length > 50
HistoryLimit == 50

\* variant of clearMessages that keeps the oldest messages
ClearKeepingOldest(messages) ==
    IF Len(messages) > HistoryLimit THEN SubSeq(messages, 1, HistoryLimit) ELSE messages
\* clearMessages(): splice(0, length - 50) removes the oldest messages
clearMessages(messages) ==
    IF Len(messages) > HistoryLimit
      THEN SubSeq(messages, Len(messages) - HistoryLimit + 1, Len(messages))
      ELSE messages

\* the users of the connected sockets (socket.user.email)
ChatUsers == {ALICE}

\* socket.on('chat message'): the message object is pushed, broadcast, and
\* the history trimmed.  The nth message handled carries n as its content.
chatMessage ==
    \E sender \in ChatUsers :
        LET messageObj == [content |-> received + 1, username |-> sender]
        IN  /\ received < MaxMessages
            /\ received' = received + 1
            /\ previousMessages' = clearMessages(Append(previousMessages, messageObj))
            /\ UNCHANGED chatHistory
            /\ UNCHANGED <<gateVars, validateVars, cartVars, idVars, artVars, httpVars, authVars, docVars, creates>>

\* socket.on('request history'): the history is emitted to the socket
requestHistory ==
    /\ chatHistory' = <<previousMessages>>
    /\ UNCHANGED <<previousMessages, received>>
    /\ UNCHANGED <<gateVars, validateVars, cartVars, idVars, artVars, httpVars, authVars, docVars, creates>>

\* the module has just been loaded: var previousMessages = []
ChatIdle ==
    /\ previousMessages = <<>>
    /\ received = 0
    /\ chatHistory = <<>>

\* ---------------------------------------- concurrent create requests

CreateSlots == 1..MaxCreates

NoCreate ==
    [pc |-> "new", kind |-> "none", claims |-> <<>>, payload |-> <<>>, status |-> 0, id |-> 0]

\* the administrator who sends the POST /articles requests
AdminUser == [present |-> TRUE, roles |-> Arr(<<ADMIN>>)]

\* bodies drawn for the POST /articles requests: two valid ones, one without
\* a name
CreateBodies ==
    {[name |-> n, price |-> Str(<<"1", "9", ".", "9", "9">>)] :
        n \in {Str(TEA), Str(MUG), Str(<<>>)}}

\* A create request arrives.  Its body (express.json) or its upload (multer)
\* is received asynchronously: other requests are served before its handler
\* runs.
createReceived(c) ==
    /\ creates[c].pc = "new"
    /\ \/ \E body \in CreateBodies :
              creates' = [creates EXCEPT ![c] =
                             [NoCreate EXCEPT !.pc = "parsed", !.kind = "article",
                                              !.payload = <<body>>]]
       \/ \E claims \in DocClaims, file \in {<<>>, <<PNG>>} :
              creates' = [creates EXCEPT ![c] =
                             [NoCreate EXCEPT !.pc = "parsed", !.kind = "document",
                                              !.claims = <<claims>>, !.payload = file]]
    /\ UNCHANGED <<gateVars, validateVars, cartVars, idVars, artVars, httpVars, authVars, docVars, chatVars>>

\* the POST /articles handler of a received request runs, from its read of
\* the catalog to its response, without a suspension point
articleCreated(c) ==
    /\ creates[c].pc = "parsed"
    /\ creates[c].kind = "article"
    /\ LET body == creates[c].payload[1]
       IN  ArticlesRoute(AdminUser, [method |-> "POST", id |-> <<>>, body |-> body],
                         CreateHandler(body))
    /\ creates' = [creates EXCEPT ![c].pc = "done", ![c].status = artRes',
                                  ![c].id = IF artRes' = 201 THEN issued'[Len(issued')] ELSE 0]

\* the callback of upload.single('file') of a received upload runs, from
\* its read of the documents to its response, without a suspension point
documentCreated(c) ==
    /\ creates[c].pc = "parsed"
    /\ creates[c].kind = "document"
    /\ LET claims == creates[c].claims[1]
           file == creates[c].payload
       IN  DocumentsRoute(claims, [method |-> "POST", claims |-> claims, file |-> file],
                          SendHandler(claims, file))
    /\ creates' = [creates EXCEPT ![c].pc = "done", ![c].status = docRes',
                                  ![c].id = IF docRes' = 200 THEN uploads'[Len(uploads')].id ELSE 0]

\* no create request is in flight
CreatesIdle == creates = [c \in CreateSlots |-> NoCreate]

\* ---------------------------------------------------------- specifications

\* one request with any claims and any response object, before a gate runs
InitGate ==
    /\ user \in GateUsers
    /\ resMode \in ResModes
    /\ GateIdle
    /\ candidate = NoCandidate
    /\ ValidateIdle
    /\ cartFile = File("missing", <<>>)
    /\ productsFile = File("missing", <<>>)
    /\ CartIdle
    /\ existingItems = NoArray
    /\ IdIdle
    /\ ArticlesIdle
    /\ HttpIdle
    /\ users = <<>>
    /\ AuthIdle
    /\ documentsFile = File("missing", <<>>)
    /\ DocsIdle
    /\ ChatIdle
    /\ CreatesIdle

NextGate == securityMiddleware \/ adminMiddleware

SpecGate == InitGate /\ [][NextGate]_vars

\* any candidate, before validateProduct is called
InitValidate ==
    /\ user = NoUser
    /\ resMode = "ok"
    /\ GateIdle
    /\ candidate \in Candidates
    /\ ValidateIdle
    /\ cartFile = File("missing", <<>>)
    /\ productsFile = File("missing", <<>>)
    /\ CartIdle
    /\ existingItems = NoArray
    /\ IdIdle
    /\ ArticlesIdle
    /\ HttpIdle
    /\ users = <<>>
    /\ AuthIdle
    /\ documentsFile = File("missing", <<>>)
    /\ DocsIdle
    /\ ChatIdle
    /\ CreatesIdle

NextValidate == validateProduct \/ validateRecord

SpecValidate == InitValidate /\ [][NextValidate]_vars

\* any cart file and products file, before a pricing call
InitCart ==
    /\ user = NoUser
    /\ resMode = "ok"
    /\ GateIdle
    /\ candidate = NoCandidate
    /\ ValidateIdle
    /\ cartFile \in CartFiles
    /\ productsFile \in ProductsFiles
    /\ CartIdle
    /\ existingItems = NoArray
    /\ IdIdle
    /\ ArticlesIdle
    /\ HttpIdle
    /\ users = <<>>
    /\ AuthIdle
    /\ documentsFile = File("missing", <<>>)
    /\ DocsIdle
    /\ ChatIdle
    /\ CreatesIdle

NextCart == getCartWithDetails \/ calculateBalance

SpecCart == InitCart /\ [][NextCart]_vars

\* any argument, before generateId is called
InitId ==
    /\ user = NoUser
    /\ resMode = "ok"
    /\ GateIdle
    /\ candidate = NoCandidate
    /\ ValidateIdle
    /\ cartFile = File("missing", <<>>)
    /\ productsFile = File("missing", <<>>)
    /\ CartIdle
    /\ existingItems \in ItemArrays \cup {NoArray}
    /\ IdIdle
    /\ ArticlesIdle
    /\ HttpIdle
    /\ users = <<>>
    /\ AuthIdle
    /\ documentsFile = File("missing", <<>>)
    /\ DocsIdle
    /\ ChatIdle
    /\ CreatesIdle

NextId == generateId

SpecId == InitId /\ [][NextId]_vars

\* an empty catalog (no file yet, or a file holding []), before any request
InitArticles ==
    /\ user = NoUser
    /\ resMode = "ok"
    /\ GateIdle
    /\ candidate = NoCandidate
    /\ ValidateIdle
    /\ cartFile = File("missing", <<>>)
    /\ productsFile \in {File("missing", <<>>), File("ok", <<>>)}
    /\ CartIdle
    /\ existingItems = NoArray
    /\ IdIdle
    /\ ArticlesIdle
    /\ HttpIdle
    /\ users = <<>>
    /\ AuthIdle
    /\ documentsFile = File("missing", <<>>)
    /\ DocsIdle
    /\ ChatIdle
    /\ CreatesIdle

NextArticles ==
    \/ createProduct \/ updateProduct \/ deleteProduct \/ deleteAllProducts
    \/ getProduct \/ updateProductNoBody

SpecArticles == InitArticles /\ [][NextArticles]_vars

\* one request with any path and Authorization header, as it arrives
InitHttp ==
    /\ user = NoUser
    /\ resMode = "ok"
    /\ GateIdle
    /\ candidate = NoCandidate
    /\ ValidateIdle
    /\ cartFile = File("missing", <<>>)
    /\ productsFile = File("missing", <<>>)
    /\ CartIdle
    /\ existingItems = NoArray
    /\ IdIdle
    /\ ArticlesIdle
    /\ httpReq \in [path : PublicPaths \cup ProtectedPaths, authorization : AuthHeaders]
    /\ stage = "received"
    /\ responses = <<>>
    /\ handlerRuns = 0
    /\ users = <<>>
    /\ AuthIdle
    /\ documentsFile = File("missing", <<>>)
    /\ DocsIdle
    /\ ChatIdle
    /\ CreatesIdle

NextHttp == publicRoute \/ JWTmiddleware \/ protectedRoute

SpecHttp == InitHttp /\ [][NextHttp]_vars

\* any stored collection, before a registration or a login arrives
InitAuth ==
    /\ user = NoUser
    /\ resMode = "ok"
    /\ GateIdle
    /\ candidate = NoCandidate
    /\ ValidateIdle
    /\ cartFile = File("missing", <<>>)
    /\ productsFile = File("missing", <<>>)
    /\ CartIdle
    /\ existingItems = NoArray
    /\ IdIdle
    /\ ArticlesIdle
    /\ HttpIdle
    /\ users \in StoredUsers
    /\ AuthIdle
    /\ documentsFile = File("missing", <<>>)
    /\ DocsIdle
    /\ ChatIdle
    /\ CreatesIdle

NextAuth ==
    \/ \E r \in RegisterSlots : registerFindOne(r) \/ registerHash(r) \/ registerTry(r)
    \/ loginUser

SpecAuth == InitAuth /\ [][NextAuth]_vars

\* the event loop resumes every handler whose awaited promise has settled
FairAuth == \A r \in RegisterSlots : WF_vars(registerHash(r)) /\ WF_vars(registerTry(r))

SpecAuthFair == SpecAuth /\ FairAuth

\* an empty documents store and the two registered users, before any request
InitDocs ==
    /\ user = NoUser
    /\ resMode = "ok"
    /\ GateIdle
    /\ candidate = NoCandidate
    /\ ValidateIdle
    /\ cartFile = File("missing", <<>>)
    /\ productsFile = File("missing", <<>>)
    /\ CartIdle
    /\ existingItems = NoArray
    /\ IdIdle
    /\ ArticlesIdle
    /\ HttpIdle
    /\ users = RegisteredUsers
    /\ AuthIdle
    /\ documentsFile \in {File("missing", <<>>), File("ok", <<>>), File("nonarray", <<>>)}
    /\ DocsIdle
    /\ ChatIdle
    /\ CreatesIdle

NextDocs == sendDocument \/ listDocuments

SpecDocs == InitDocs /\ [][NextDocs]_vars

\* the chat room before any event
InitChat ==
    /\ user = NoUser
    /\ resMode = "ok"
    /\ GateIdle
    /\ candidate = NoCandidate
    /\ ValidateIdle
    /\ cartFile = File("missing", <<>>)
    /\ productsFile = File("missing", <<>>)
    /\ CartIdle
    /\ existingItems = NoArray
    /\ IdIdle
    /\ ArticlesIdle
    /\ HttpIdle
    /\ users = <<>>
    /\ AuthIdle
    /\ documentsFile = File("missing", <<>>)
    /\ DocsIdle
    /\ ChatIdle
    /\ CreatesIdle

NextChat == chatMessage \/ requestHistory

SpecChat == InitChat /\ [][NextChat]_vars

\* carts and catalogs drawn for the store: each catalog has products 1 and
\* 2, each cart a line for product 1
StoreCarts ==
    { CartOf(<< <<1, 2>>, <<2, 1>> >>), CartOf(<< <<1, 1>>, <<999, 2>> >>), CartOf(<< <<1, 2>> >>) }
StoreCatalogs ==
    { << [id |-> 1, name |-> TEA, price |-> Num(1050, 0 - 2)],
         [id |-> 2, name |-> MUG, price |-> Num(2599, 0 - 2)] >>,
      << [id |-> 2, name |-> MUG, price |-> Num(3, 0)],
         [id |-> 1, name |-> TEA, price |-> Num(1050, 0 - 2)] >> }

\* a cart whose lines reference products of the catalog, before any request
InitStore ==
    /\ user = NoUser
    /\ resMode = "ok"
    /\ GateIdle
    /\ candidate = NoCandidate
    /\ ValidateIdle
    /\ cartFile \in {File("ok", c) : c \in StoreCarts}
    /\ productsFile \in {File("ok", c) : c \in StoreCatalogs}
    /\ CartIdle
    /\ existingItems = NoArray
    /\ IdIdle
    /\ ArticlesIdle
    /\ HttpIdle
    /\ users = <<>>
    /\ AuthIdle
    /\ documentsFile = File("missing", <<>>)
    /\ DocsIdle
    /\ ChatIdle
    /\ CreatesIdle

NextStore == deleteProduct \/ deleteAllProducts \/ getCartWithDetails

SpecStore == InitStore /\ [][NextStore]_vars

\* two empty collections, before any create request
InitCreate ==
    /\ user = NoUser
    /\ resMode = "ok"
    /\ GateIdle
    /\ candidate = NoCandidate
    /\ ValidateIdle
    /\ cartFile = File("missing", <<>>)
    /\ productsFile \in {File("missing", <<>>), File("ok", <<>>)}
    /\ CartIdle
    /\ existingItems = NoArray
    /\ IdIdle
    /\ ArticlesIdle
    /\ HttpIdle
    /\ users = RegisteredUsers
    /\ AuthIdle
    /\ documentsFile \in {File("missing", <<>>), File("ok", <<>>)}
    /\ DocsIdle
    /\ ChatIdle
    /\ CreatesIdle

NextCreate ==
    \E c \in CreateSlots : createReceived(c) \/ articleCreated(c) \/ documentCreated(c)

SpecCreate == InitCreate /\ [][NextCreate]_vars

\* ------------------------------------------------- properties: role gates

\* claims whose roles field is absent or an array of strings
RolesAbsentOrArray(u) == ~u.present \/ u.roles.t \in {"undefined", "null", "array"}

\* claims present, roles a non-empty array, one element equal to a role of required
HasRequiredRole(u, required) ==
    /\ u.present
    /\ u.roles.t = "array"
    /\ Len(u.roles.a) > 0
    /\ \E i \in 1..Len(u.roles.a) : u.roles.a[i] \in required

\* accept: next called once, nothing written, nothing raised
AcceptOutcome ==
    nextCalls = 1 /\ statusArgs = <<>> /\ jsonArgs = <<>> /\ thrown = "none"

\* reject: status 403 then the Forbidden body, next not called; a raising
\* response object cuts the writing short
RejectOutcome ==
    /\ nextCalls = 0
    /\ statusArgs = <<403>>
    /\ thrown \in {"none", "ResponseError"}
    /\ resMode # "statusThrows" => jsonArgs = <<ForbiddenBody>>
    /\ resMode = "ok" => thrown = "none"

C3_StringRolesRejected ==
    (gate # "none" /\ user.present /\ user.roles.t = "string") => RejectOutcome

\* C4: with a response object that does not fail, a gate never raises,
\* whatever the claims are.
C4_GateNeverRaises == (gate # "none" /\ resMode = "ok") => thrown = "none"

\* C5: every invocation of a gate ends in exactly one of accept (next once,
\* nothing written) and reject (403, then the Forbidden body, next never
\* called, also when the response object raises).
C5_AcceptOrReject ==
    gate # "none" => (AcceptOutcome /\ ~RejectOutcome) \/ (RejectOutcome /\ ~AcceptOutcome)

\* ---------------------------------------------- properties: validateProduct

\* the name rule: a string with at least one character that is no white space
NameRuleHolds(p) ==
    /\ p.present
    /\ p.name.t = "string"
    /\ \E i \in 1..Len(p.name.s) : p.name.s[i] \notin WhiteSpace

FinitePositive(v) == v.t = "number" /\ v.k = "finite" /\ v.n > 0

\* s, white space around it aside, is as a whole the decimal literal of a
\* finite positive number
NumericStringOfFinitePositive(s) ==
    LET r == Trim(s)
        f == FloatScan(r)
    IN  /\ r # <<>>
        /\ f.len = Len(r)
        /\ ~f.inf
        /\ FinitePositive(ToDouble(f.neg, f.mant, f.exp))

\* the price rule: a finite positive number, or the numeric string of one
PriceRuleHolds(p) ==
    /\ p.present
    /\ \/ FinitePositive(p.price)
       \/ p.price.t = "string" /\ NumericStringOfFinitePositive(p.price.s)

\* how many times msg occurs in the returned list
Occurrences(msg) == Cardinality({i \in 1..Len(errors) : errors[i] = msg})

\* C6: validateProduct returns the empty list iff the name is a string with
\* a character that is no white space and the price is a finite positive
\* number or the numeric string of one; every other price gets the price
\* message.
C6_EmptyIffValid ==
    validated =>
        /\ (errors = <<>>) <=> (NameRuleHolds(candidate) /\ PriceRuleHolds(candidate))
        /\ ~PriceRuleHolds(candidate) => Occurrences(PriceMessage) >= 1

\* C7: the list holds the name message exactly when the name rule fails and
\* the price message exactly when the price rule fails, each at most once and
\* nothing else, so both for a candidate failing both and for an absent one.
C7_OneMessagePerFailedRule ==
    validated =>
        /\ Occurrences(NameMessage) = (IF NameRuleHolds(candidate) THEN 0 ELSE 1)
        /\ Occurrences(PriceMessage) = (IF PriceRuleHolds(candidate) THEN 0 ELSE 1)
        /\ Len(errors) = Occurrences(NameMessage) + Occurrences(PriceMessage)

\* ------------------------------------------------ properties: cart pricing

\* the items and the catalog the two files hold, none when a file is unreadable
StoredCart == IF cartFile.st = "ok" THEN cartFile.data ELSE <<>>
StoredCatalog == IF productsFile.st = "ok" THEN productsFile.data ELSE <<>>

\* productId is the id of some product of the catalog
Resolves(catalog, productId) == \E i \in 1..Len(catalog) : catalog[i].id = productId

\* the first product of the catalog with that id
FirstMatch(catalog, productId) ==
    catalog[CHOOSE i \in 1..Len(catalog) :
                /\ catalog[i].id = productId
                /\ \A j \in 1..(i - 1) : catalog[j].id # productId]

RECURSIVE SumOver(_, _)
\* the sum of f[i] over the i of S
SumOver(f, S) ==
    IF S = {} THEN 0
    ELSE LET i == CHOOSE x \in S : TRUE IN f[i] + SumOver(f, S \ {i})

\* C8: calculateBalance(cartItems, products) is the sum, over the items whose
\* productId is some product's id, of the first such product's price times
\* the item's quantity; the other items add nothing, and the result is 0 for
\* an empty cart or an empty catalog.
C8_BalanceIsSumOfResolved ==
    op = "calculateBalance" =>
        LET cart == cartFile.data
            catalog == productsFile.data
            resolved == {i \in 1..Len(cart) : Resolves(catalog, cart[i].productId)}
            cost == [i \in resolved |->
                        Cents(FirstMatch(catalog, cart[i].productId).price) * cart[i].quantity]
        IN  /\ balance = SumOver(cost, resolved)
            /\ (cart = <<>> \/ catalog = <<>>) => balance = 0

C8_Witness ==
    /\ op = "calculateBalance"
    /\ balance > 0
    /\ \E i \in 1..Len(cartFile.data) :
           ~Resolves(productsFile.data, cartFile.data[i].productId)
    /\ \E i, j \in 1..Len(productsFile.data) :
           /\ i < j
           /\ productsFile.data[i].id = productsFile.data[j].id
           /\ productsFile.data[i].price # productsFile.data[j].price
           /\ \E c \in 1..Len(cartFile.data) :
                  cartFile.data[c].productId = productsFile.data[i].id

\* C9: getCartWithDetails returns one line per stored cart item, in order;
\* a line has every field of its item unchanged, plus the matching product
\* and price times quantity when productId resolves, and null and 0 when not.
C9_LinesExtendItems ==
    (op = "getCartWithDetails" /\ cartThrown = "none") =>
        /\ Len(summary.items) = Len(StoredCart)
        /\ \A i \in 1..Len(StoredCart) :
              LET item == StoredCart[i]
                  line == summary.items[i]
              IN  /\ DOMAIN line = DOMAIN item \cup {"product", "subtotal"}
                  /\ \A f \in DOMAIN item : line[f] = item[f]
                  /\ IF Resolves(StoredCatalog, item.productId)
                       THEN /\ line.product = <<FirstMatch(StoredCatalog, item.productId)>>
                            /\ line.subtotal =
                                   Cents(FirstMatch(StoredCatalog, item.productId).price) * item.quantity
                       ELSE line.product = <<>> /\ line.subtotal = 0

C9_Witness ==
    /\ op = "getCartWithDetails"
    /\ cartThrown = "none"
    /\ \E i, j \in 1..Len(summary.items) :
           /\ summary.items[i].product = <<>>
           /\ summary.items[j].product # <<>>
           /\ summary.items[j].quantity > 1
           /\ summary.items[j].subtotal > 0

\* C10: the summary getCartWithDetails returns has balance equal to the sum
\* of the subtotals of its lines.
C10_BalanceIsSumOfSubtotals ==
    (op = "getCartWithDetails" /\ cartThrown = "none") =>
        summary.balance =
            SumOver([i \in 1..Len(summary.items) |-> summary.items[i].subtotal],
                    1..Len(summary.items))

C10_Witness ==
    /\ op = "getCartWithDetails"
    /\ cartThrown = "none"
    /\ Len(summary.items) >= 2
    /\ summary.balance > 0
    /\ summary.items[1].subtotal = 0
    /\ summary.items[2].quantity > 1

\* C11: the summary getCartWithDetails returns has itemCount equal to the sum
\* of the quantities of all stored cart items, the ones whose product does not
\* resolve included, while balance is the sum over the resolving items only.
C11_ItemCountCountsEveryLine ==
    (op = "getCartWithDetails" /\ cartThrown = "none") =>
        LET cart == StoredCart
            resolved == {i \in 1..Len(cart) : Resolves(StoredCatalog, cart[i].productId)}
        IN  /\ summary.itemCount =
                   SumOver([i \in 1..Len(cart) |-> cart[i].quantity], 1..Len(cart))
            /\ summary.balance =
                   SumOver([i \in resolved |->
                               Cents(FirstMatch(StoredCatalog, cart[i].productId).price)
                                   * cart[i].quantity],
                           resolved)

C11_Witness ==
    /\ op = "getCartWithDetails"
    /\ cartThrown = "none"
    /\ Len(cartFile.data) = 2
    /\ cartFile.data[1].quantity = 2
    /\ ~Resolves(StoredCatalog, cartFile.data[1].productId)
    /\ Resolves(StoredCatalog, cartFile.data[2].productId)
    /\ summary.itemCount = 2 + cartFile.data[2].quantity
    /\ summary.balance > 0

\* a file that cannot be read or whose text is no JSON
Unreadable(f) == f.st \in {"missing", "malformed"}

C15_BuiltRecordIsValid ==
    record # <<>> =>
        /\ recordErrors = <<>>
        /\ record[1].name.t = "string"
        /\ record[1].name.s = Trim(candidate.name.s)
        /\ record[1].price.t = "number"

C15_Witness ==
    /\ record # <<>>
    /\ candidate.name = Str(<<" ", "x", " ">>)
    /\ candidate.price = Str(<<".", "5">>)
    /\ record[1].name = Str(<<"x">>)
    /\ record[1].price = Num(5, 0 - 1)
    /\ recordErrors = <<>>

\* ------------------------------------------------ properties: the catalog

\* the claims of the requester of the last request hold the admin role:
\* roles is an array with an element equal to "admin"
RequesterIsAdmin == HasRequiredRole(user, {ADMIN})

\* C16: after any sequence of create, update, delete and delete-all requests
\* of an administrator from an empty catalog, every stored product has a
\* positive integer id unique in the catalog, a non-empty name of at most 100
\* characters and a positive price.
C16_CatalogRecordsWellFormed ==
    LET catalog == StoredCatalog
    IN  RequesterIsAdmin =>
        \A i \in 1..Len(catalog) :
            /\ catalog[i].id \in Nat \ {0}
            /\ \A j \in 1..Len(catalog) : catalog[j].id = catalog[i].id => j = i
            /\ Len(catalog[i].name) \in 1..MaxNameLength
            /\ catalog[i].price.t = "number"
            /\ ~LeqZero(catalog[i].price)
            /\ ~IsNaN(catalog[i].price)

HasBearerScheme(h) ==
    h.t = "string" /\ Len(h.s) >= 7 /\ SubSeq(h.s, 1, 7) = BEARER

\* what follows "Bearer ", white space around it aside
BearerToken(h) == Trim(SubSeq(h.s, 8, Len(h.s)))

\* C18: a request to /articles, /cart or /documents reaches its route
\* handler only after the JWT middleware has verified a Bearer token and
\* attached the decoded claims; a missing, malformed or empty Authorization
\* header is answered 401 and a token that fails verification 500, in both
\* cases with exactly one response and no route handler run.
C18_HandlerOnlyAfterVerification ==
    LET h == httpReq.authorization
    IN  httpReq.path \in ProtectedPaths =>
        /\ (handlerRuns > 0 \/ stage = "authenticated") =>
               /\ HasBearerScheme(h)
               /\ BearerToken(h) \in GoodTokens
               /\ user = TokenClaims[BearerToken(h)]
        /\ (stage = "answered" /\ (~HasBearerScheme(h) \/ BearerToken(h) = <<>>)) =>
               responses = <<401>> /\ handlerRuns = 0
        /\ (/\ stage = "answered"
            /\ HasBearerScheme(h)
            /\ BearerToken(h) # <<>>
            /\ BearerToken(h) \notin GoodTokens) =>
               responses = <<500>> /\ handlerRuns = 0
        /\ Len(responses) <= 1
        /\ handlerRuns <= 1

C18_Witness ==
    /\ httpReq.path = "/cart"
    /\ httpReq.authorization = Str(BEARER \o <<" ">> \o T2 \o <<" ">>)
    /\ stage = "answered"
    /\ user.roles = Arr(<<ADMIN>>)
    /\ handlerRuns = 1
    /\ responses = <<200>>

\* ------------------------------------- properties: registration and login

\* email is the email of a document of docs
EmailStored(docs, email) ==
    email.t = "string" /\ \E i \in 1..Len(docs) : docs[i].email = email.s

\* C19: a POST /register whose email belonged to a stored user when it
\* arrived is answered 409 and stores no new user, whatever its password.
C19_DuplicateEmailGets409 ==
    \A r \in RegisterSlots :
        (regs[r].pc \in {"done", "hung"} /\ regs[r].existingUser # <<>>) =>
            /\ regs[r].status = 409
            /\ Cardinality({i \in 1..Len(users) : users[i].email = regs[r].email.s}) = 1

PositiveIntegerText(s) ==
    /\ s # <<>>
    /\ \A i \in 1..Len(s) : s[i] \in Digits
    /\ \E i \in 1..Len(s) : s[i] # "0"

\* the claims of the requester of the last request hold the user or the
\* admin role
RequesterIsMember == HasRequiredRole(user, {USER, ADMIN})

\* C21: a GET /articles/:id of a member whose id segment is no positive
\* integer (a word, a decimal, a negative number) is answered 400 and
\* returns no product.
C21_NonIntegerIdGets400 ==
    (artReq.method = "GET" /\ RequesterIsMember /\ ~PositiveIntegerText(artReq.id)) =>
        (artRes = 400 /\ artData = <<>>)

\* C22: a PUT /articles/:id of an administrator whose id is a number that
\* matches no product of the catalog is answered 404 and leaves the catalog
\* file as it was, whatever the body, a missing body included.
C22_UpdateOfUnknownIdGets404 ==
    [][(/\ served' = served + 1
        /\ artReq'.method = "PUT"
        /\ HasRequiredRole(user', {ADMIN})
        /\ ~IsNaN(parseInt(artReq'.id))
        /\ FindIndex(StoredCatalog, parseInt(artReq'.id).n) = 0)
           => (artRes' = 404 /\ productsFile' = productsFile)]_vars

\* --------------------------------------------------- properties: documents

\* the ids of the documents that the user of id userId uploaded
UploadedBy(userId) == {uploads[i].id : i \in {j \in 1..Len(uploads) : uploads[j].owner = userId}}

\* C23: a GET /documents answered 200 lists exactly the documents that the
\* requesting user uploaded; no document uploaded by another user is listed.
C23_ListingHoldsOwnDocumentsOnly ==
    (docReq.method = "GET" /\ docRes = 200) =>
        {docList[1][i].id : i \in 1..Len(docList[1])} = UploadedBy(docReq.claims.userId)

\* --------------------------------------------------- properties: the chat

\* C24: after every handled 'chat message' the history holds at most 50
\* messages, which are the most recently received ones in arrival order, and
\* no 'chat history' reply holds more than 50 messages.
C24_HistoryHoldsLast50 ==
    LET kept == IF received < HistoryLimit THEN received ELSE HistoryLimit
    IN  /\ Len(previousMessages) = kept
        /\ \A i \in 1..kept : previousMessages[i].content = received - kept + i
        /\ chatHistory # <<>> => Len(chatHistory[1]) <= HistoryLimit

C24_Witness ==
    /\ received = HistoryLimit + 2
    /\ Len(previousMessages) = HistoryLimit
    /\ previousMessages[1].content = 3
    /\ chatHistory # <<>>
    /\ Len(chatHistory[1]) = HistoryLimit
    /\ chatHistory[1][HistoryLimit].content = HistoryLimit + 2

\* ------------------------------------------- properties: identifiers

\* C25: over any sequence of creations and deletions, each id generateId
\* hands to a new product is greater than every id handed out before.
C25_IssuedIdsIncrease ==
    \A i \in 1..Len(issued) : \A j \in 1..Len(issued) : i < j => issued[i] < issued[j]

\* C26: every POST /register received is eventually answered, once; one
\* without the email or without the password is answered with an error
\* status and stores no user.
C26_RegisterAlwaysAnswered ==
    \A r \in RegisterSlots :
        /\ (regs[r].pc = "hash") ~> (regs[r].pc = "done" /\ regs[r].status # 0)
        /\ []((regs[r].pc = "done" /\ Undef \in {regs[r].email, regs[r].password})
                 => regs[r].status >= 400)

\* ------------------------------------- properties: the cart after deletions

\* C27: DELETE /articles/:id and DELETE /articles leave the cart file as it
\* was, and every getCartWithDetails made between them succeeds: one line
\* per cart item, a line whose product is no longer in the catalog having
\* product null and subtotal 0, balance adding the other lines only and
\* itemCount adding the quantity of every line.
C27_DeletionLeavesCartPriced ==
    /\ [][cartFile' = cartFile]_vars
    /\ [](\A k \in 1..Len(history) :
             LET call == history[k]
                 cart == cartFile.data
                 catalog == call.products.data
                 resolved == {i \in 1..Len(cart) : Resolves(catalog, cart[i].productId)}
             IN  /\ call.thrown = "none"
                 /\ call.cart = cartFile
                 /\ Len(call.summary.items) = Len(cart)
                 /\ \A i \in 1..Len(cart) :
                        /\ \A f \in DOMAIN cart[i] : call.summary.items[i][f] = cart[i][f]
                        /\ i \notin resolved =>
                               /\ call.summary.items[i].product = <<>>
                               /\ call.summary.items[i].subtotal = 0
                 /\ call.summary.balance =
                        SumOver([i \in resolved |->
                                    Cents(FirstMatch(catalog, cart[i].productId).price)
                                        * cart[i].quantity],
                                resolved)
                 /\ call.summary.itemCount =
                        SumOver([i \in 1..Len(cart) |-> cart[i].quantity], 1..Len(cart)))

C27_Witness ==
    /\ artReq.method = "DELETE"
    /\ artReq.id = <<"1">>
    /\ artRes = 200
    /\ ~Resolves(productsFile.data, 1)
    /\ Len(cartFile.data) = 2
    /\ cartFile.data[2].productId = 2
    /\ Len(history) = 2
    /\ history[1].products # productsFile
    /\ history[1].summary.items[1].product # <<>>
    /\ history[2].products = productsFile
    /\ history[2].summary.items[1].product = <<>>
    /\ history[2].summary.items[1].subtotal = 0
    /\ history[2].summary.items[2].subtotal = 2599
    /\ history[2].summary.balance = 2599
    /\ history[2].summary.itemCount = 3
    /\ cartFile.data[1].productId = 1

\* C28: every user document a POST /register stores has roles exactly
\* ["user"], whatever roles the request body names; no registration stores a
\* user whose roles contain "admin".
C28_RegisteredUsersAreMembers ==
    [][\A i \in 1..Len(users') :
          i > Len(users) => users'[i].roles = Arr(<<USER>>)]_vars

C28_Witness ==
    \E r \in RegisterSlots :
        /\ regs[r].pc = "done"
        /\ regs[r].status = 201
        /\ regs[r].roles = Arr(<<ADMIN>>)
        /\ regs[r].email = Str(BOB)
        /\ \E i \in 1..Len(users) : users[i].email = BOB /\ users[i].roles = Arr(<<USER>>)

\* the password passes the length test of the handler
AcceptablePassword(password) ==
    password.t = "string" /\ Len(Trim(password.s)) >= MinPasswordLength

\* C29: of two POST /register requests with the same email and acceptable
\* passwords, however their steps interleave, at most one stores a user with
\* that email, and when one is answered 201 the other is answered 409.
C29_RacingRegistrationsGet409 ==
    \A r \in RegisterSlots : \A q \in RegisterSlots \ {r} :
        (/\ regs[r].pc = "done"
         /\ regs[q].pc = "done"
         /\ regs[r].email = regs[q].email
         /\ AcceptablePassword(regs[r].password)
         /\ AcceptablePassword(regs[q].password)
         /\ regs[r].status = 201) =>
            /\ regs[q].status = 409
            /\ Cardinality({i \in 1..Len(users) :
                                users[i].email = ToLowerCase(Trim(regs[r].email.s))}) = 1

\* ------------------------------------ properties: concurrent create requests

\* the slots of the answered create requests of a kind that stored a record
Created(kind) ==
    {c \in CreateSlots : creates[c].pc = "done" /\ creates[c].kind = kind /\ creates[c].id # 0}

\* every id is the id of one record of the collection
IdsUnique(collection) ==
    \A i \in 1..Len(collection) : \A j \in 1..Len(collection) :
        collection[i].id = collection[j].id => i = j

StoredDocuments == IF documentsFile.st = "ok" THEN documentsFile.data ELSE <<>>

====
